---- MODULE Spec2Model ----
(***************************************************************************)
(* A model of src/render_react/renderer.py: the two view decorators        *)
(* (render_html, render_react), the component stub writer                  *)
(* (_write_react_page_file) and the type-file sync (_write_typescript_file) *)
(* acting on the generated-pages tree {root}/js/template/{module}/.        *)
(*                                                                         *)
(* Python strings and file contents are sequences of characters.  A        *)
(* character is a one-token string: "x" stands for any ordinary character, *)
(* LF and CR are the two line-end characters, SP is a blank; the other     *)
(* tokens stand for fixed runs of ordinary characters (the header comment, *)
(* a rendered import, a rendered interface, the stub template's text).     *)
(***************************************************************************)
EXTENDS Integers, Sequences, FiniteSets, TLC

\* The longest type-data string a direct call of the type-file sync passes.
MaxLen == 1

LF == "LF"
CR == "CR"
SP == "SP"

\* The characters of the strings direct callers pass as type_data.
Chars == {"x", LF, CR}

\* Python's None where a str is expected; no string equals it.
None == <<"<None>">>

\* A path that names no file.
Absent == <<"<absent>">>

Strings == UNION {[1..k -> Chars] : k \in 0..MaxLen}

(* Text-mode file I/O (open() with newline=None), on a POSIX host.          *)

\* os.linesep
Linesep == <<LF>>

\* Writing in text mode: every "\n" becomes os.linesep, nothing else changes.
RECURSIVE TextWrite(_)
TextWrite(s) ==
    IF s = <<>> THEN <<>>
    ELSE (IF Head(s) = LF THEN Linesep ELSE <<Head(s)>>) \o TextWrite(Tail(s))

\* Reading in text mode: "\r\n" and a lone "\r" both come back as "\n".
RECURSIVE TextRead(_)
TextRead(b) ==
    IF b = <<>> THEN <<>>
    ELSE IF Head(b) = CR
         THEN IF Len(b) >= 2 /\ b[2] = LF
              THEN <<LF>> \o TextRead(Tail(Tail(b)))
              ELSE <<LF>> \o TextRead(Tail(b))
         ELSE <<Head(b)>> \o TextRead(Tail(b))

(* The handlers the application defines.                                    *)

\* f.__module__ as its dotted components, and f.__name__.
H1 == [py_module |-> <<"src", "views", "admin">>, name |-> "index"]
H2 == [py_module |-> <<"src", "views", "shop">>, name |-> "prefs"]
Handlers == {H1, H2}

\* re.sub(r".*\.", "", view_function.__module__): the last dotted component.
ModuleOf(f) == f.py_module[Len(f.py_module)]

Modules == {ModuleOf(f) : f \in Handlers}
Names == {f.name : f \in Handlers}

\* File names inside a module directory: the stub, the type file, and one
\* entry the generator knows nothing about.
Tsx(endpoint) == <<endpoint, "tsx">>
TypeTs(endpoint) == <<endpoint, "type.ts">>
Other == <<"notes", "md">>
FileNames == {Tsx(e) : e \in Names} \cup {TypeTs(e) : e \in Names} \cup {Other}

(* The process and its surroundings.                                        *)
VARIABLES
    ENVIRONMENT,   \* settings.ENVIRONMENT, read when the process starts
    fs,            \* the tree under {root}/js/template
    decorators,    \* the fields of each render_react object
    wrapped,       \* the wrapped handlers this process has registered
    last,          \* the last call: its arguments, the filesystem before it,
                   \* the exception it raised, its mutations, what it returned
    procs          \* processes starting side by side: where each one is in
                   \* its decoration, and what it has read

vars == <<ENVIRONMENT, fs, decorators, wrapped, last, procs>>

\* The filesystem: whether {root}/js/template exists, which module
\* directories exist under it, and each file's bytes (Absent: no such file).
\* A module directory can hold its handlers' stubs and type files, and Other.
Paths ==
    UNION {{<<ModuleOf(f), Tsx(f.name)>>, <<ModuleOf(f), TypeTs(f.name)>>} :
             f \in Handlers}
    \cup {<<module, Other>> : module \in Modules}

\* The literal contents of {root}/template/render_react.template.
TemplateBytes == <<"stub", LF>>

\* A page component a developer has edited by hand.
CustomBytes == <<"mine", CR, LF>>

Exists(f, module, fname) ==
    <<module, fname>> \in Paths /\ f.files[<<module, fname>>] # Absent

\* Path.iterdir(): the entries of a module directory.
iterdir(f, module) == {fname \in FileNames : Exists(f, module, fname)}

\* The outcome of a call: the filesystem it leaves, the exception it raised
\* ("none": it returned), and the filesystem mutations it made, in order
\* (a decoration's outcome also lists the calls of the two writers).
Returned(f, ops) == [fs |-> f, exc |-> "none", ops |-> ops]
Raised(f, exc, ops) == [fs |-> f, exc |-> exc, ops |-> ops]

\* Path.mkdir(exist_ok=True): parents are not created.
mkdir(f, module) ==
    IF module \in f.dirs THEN Returned(f, <<>>)
    ELSE IF ~f.root THEN Raised(f, "FileNotFoundError", <<>>)
    ELSE Returned([f EXCEPT !.dirs = @ \cup {module}], <<"mkdir">>)

\* open(path, "w") or open(path, "w+"), then write(data), then close.
open_write(f, module, fname, data) ==
    IF module \notin f.dirs THEN Raised(f, "FileNotFoundError", <<>>)
    ELSE Returned([f EXCEPT !.files[<<module, fname>>] = TextWrite(data)],
                  <<"write">>)

\* Path.unlink()
unlink(f, module, fname) ==
    IF ~Exists(f, module, fname) THEN Raised(f, "FileNotFoundError", <<>>)
    ELSE Returned([f EXCEPT !.files[<<module, fname>>] = Absent], <<"unlink">>)

\* A removal that takes the directory's entries with it.
rmdir_recursive(f, module) ==
    IF module \notin f.dirs THEN Raised(f, "FileNotFoundError", <<>>)
    ELSE Returned([f EXCEPT !.dirs = @ \ {module},
                            !.files = [p \in Paths |->
                                         IF p[1] = module THEN Absent ELSE @[p]]],
                  <<"rmdir">>)

\* Path.rmdir(): only an empty directory can be removed.
rmdir(f, module) ==
    IF module \notin f.dirs THEN Raised(f, "FileNotFoundError", <<>>)
    ELSE IF iterdir(f, module) # {} THEN Raised(f, "OSError", <<>>)
    ELSE Returned([f EXCEPT !.dirs = @ \ {module}], <<"rmdir">>)

\* A step that ran after `first` returned: its outcome, with both steps'
\* mutations.
After(first, second) == [second EXCEPT !.ops = first.ops \o @]

\* settings.in_dev_environment
in_dev_environment == ENVIRONMENT = "development"

\* A test that finds no file, whatever is there.
exists_never(f, module, fname) == FALSE

\* os.path.exists(react_page_file_path)
exists(f, module, fname) == Exists(f, module, fname)

\* _write_react_page_file(module, endpoint)
_write_react_page_file(f, module, endpoint) ==
    IF ~in_dev_environment THEN Returned(f, <<>>)
    ELSE IF exists(f, module, Tsx(endpoint)) THEN Returned(f, <<>>)
    ELSE LET template_file_content == TextRead(TemplateBytes)
             made == mkdir(f, module)
         IN IF made.exc # "none" THEN made
            ELSE After(made, open_write(made.fs, module, Tsx(endpoint),
                                        template_file_content))

\* The try/except around the read: a file that cannot be read reads as None.
existing_type_data(f, module, endpoint) ==
    IF Exists(f, module, TypeTs(endpoint))
    THEN TextRead(f.files[<<module, TypeTs(endpoint)>>])
    ELSE None

\* Python truthiness of an Optional[str].
Truthy(type_data) == type_data # None /\ type_data # <<>>

\* After the unlink: "if any(parent.iterdir()): parent.rmdir()".
remove_directory_if_empty(f, module) ==
    IF iterdir(f, module) # {} THEN rmdir(f, module) ELSE Returned(f, <<>>)

\* A gate that lets every environment through.
not_development_never == FALSE

\* settings.ENVIRONMENT != "development"
not_development == ENVIRONMENT # "development"

\* _write_typescript_file(module=, endpoint=, type_data=)
_write_typescript_file(f, module, endpoint, type_data) ==
    IF not_development THEN Returned(f, <<>>)
    ELSE IF type_data = existing_type_data(f, module, endpoint)
    THEN Returned(f, <<>>)
    ELSE IF Truthy(type_data)
    THEN LET made == mkdir(f, module)
         IN IF made.exc # "none" THEN made
            ELSE After(made, open_write(made.fs, module, TypeTs(endpoint),
                                        type_data))
    ELSE LET gone == unlink(f, module, TypeTs(endpoint))
         IN IF gone.exc # "none" THEN gone
            ELSE After(gone, remove_directory_if_empty(gone.fs, module))

(* Return types and the generated type source.                              *)

\* What a handler's "->" annotation can be: none at all, None, a primitive,
\* an attrs class without attributes, and two attrs classes with attributes.
Annotations ==
    {"unannotated", "None", "int", "EmptyProps", "PreferencesProps", "OrderProps"}

\* src.apis.types.NoneType
NoneType == "NoneType"

\* typing.get_type_hints(view_function).pop("return", None)
return_type_of(annotation) ==
    CASE annotation = "unannotated" -> "<None>"
      [] annotation = "None" -> NoneType
      [] OTHER -> annotation

\* getattr(return_type, "__attrs_attrs__", False): the attributes of an attrs
\* class as a tuple, False for anything else.
attrs_attrs(return_type) ==
    CASE return_type = "EmptyProps" -> <<>>
      [] return_type = "PreferencesProps" -> <<"max_widgets">>
      [] return_type = "OrderProps" -> <<"customer", "total">>
      [] OTHER -> <<"<False>">>

\* An assertion that passes for every return type.
AttrsTruthy_always(return_type) == TRUE

\* Python truthiness of that value: False and () are falsy.
AttrsTruthy(return_type) ==
    attrs_attrs(return_type) \notin {<<>>, <<"<False>">>}

\* generate_interfaces(return_type, name="PageProps", default_export=True):
\* the rendered imports (empty: there are none) and the rendered interface.
typescript_imports(return_type) ==
    IF return_type = "OrderProps" THEN <<"import Customer">> ELSE <<>>
typescript_interfaces(return_type) ==
    <<"export default interface PageProps", SP>> \o attrs_attrs(return_type) \o <<LF>>

Whitespace == {SP, LF, CR}

\* str.strip()
RECURSIVE lstrip(_)
lstrip(s) ==
    IF s # <<>> /\ Head(s) \in Whitespace THEN lstrip(Tail(s)) ELSE s
RECURSIVE rstrip(_)
rstrip(s) ==
    IF s # <<>> /\ s[Len(s)] \in Whitespace
    THEN rstrip(SubSeq(s, 1, Len(s) - 1)) ELSE s
strip(s) == rstrip(lstrip(s))

\* The header comment and the blank line after it.
Header == <<"// This file is generated by @render_react", LF, LF>>

\* Generation that appends the newline without stripping first.
_generate_typescript_type_file_contents_unstripped(return_type) ==
    LET imports == typescript_imports(return_type)
        with_imports == IF imports # <<>> THEN Header \o imports \o <<LF>>
                        ELSE Header
        export_string == with_imports \o typescript_interfaces(return_type)
    IN export_string \o <<LF>>

\* render_react._generate_typescript_type_file_contents
_generate_typescript_type_file_contents(return_type) ==
    LET imports == typescript_imports(return_type)
        with_imports == IF imports # <<>> THEN Header \o imports \o <<LF>>
                        ELSE Header
        export_string == with_imports \o typescript_interfaces(return_type)
    IN strip(export_string) \o <<LF>>

\* self.return_type is None, in place of the comparison with NoneType.
returns_none_is_None(self) == self.return_type = "<None>"

\* self.return_type == NoneType
returns_none(self) == self.return_type = NoneType

\* self._generate_typescript_type_file_contents(): what the method reads of
\* the decorator object.
generated_for(self) == _generate_typescript_type_file_contents(self.return_type)

\* The two calls _write_typescript_type_file makes, as entries of an outcome's
\* `ops`, each put there when the call starts.
CallStub == "call _write_react_page_file"
CallSync == "call _write_typescript_file"
Called(call, outcome) == [outcome EXCEPT !.ops = <<call>> \o @]

\* The stub writer, then the emitter, for a return type that is not NoneType.
write_stub_then_types(f, self) ==
    LET stub == Called(CallStub, _write_react_page_file(f, self.module, self.name))
    IN IF stub.exc # "none" THEN stub
       ELSE After(stub, Called(CallSync, _write_typescript_file(
                    stub.fs, self.module, self.name, generated_for(self))))

\* The assertion made only once the stub writer has run.
_write_typescript_type_file_asserts_late(f, self) ==
    IF returns_none(self) THEN Returned(f, <<>>)
    ELSE LET stub == Called(CallStub,
                            _write_react_page_file(f, self.module, self.name))
         IN IF stub.exc # "none" THEN stub
            ELSE IF ~AttrsTruthy(self.return_type)
            THEN Raised(stub.fs, "AssertionError", stub.ops)
            ELSE After(stub, Called(CallSync, _write_typescript_file(
                         stub.fs, self.module, self.name, generated_for(self))))

\* render_react._write_typescript_type_file, for a decorator whose fields
\* __call__ has just set.
_write_typescript_type_file(f, self) ==
    IF returns_none(self) THEN Returned(f, <<>>)
    ELSE IF ~AttrsTruthy(self.return_type) THEN Raised(f, "AssertionError", <<>>)
    ELSE write_stub_then_types(f, self)

(* The plain-template decorator.                                            *)

\* The keys _build_render_context_for_base_template returns.
ChromeKeys == {"html_classes", "html_id", "is_development"}

\* unwrap(flask.request.blueprint): a request outside any blueprint has none.
unwrap_raises(blueprint) == blueprint = "<None>"

\* f(**a, **b): a keyword given twice is a TypeError.
Disjoint(a, b) == a \cap b = {}

\* The template render_html's wrapped handler asks for: self.template, or
\* "/" + "/".join(f.__module__.split(".")[2:]) + "/" + f.__name__ + ".jinja2".
html_template(template, f) ==
    IF template # <<"<None>">> THEN template
    ELSE SubSeq(f.py_module, 3, Len(f.py_module)) \o <<f.name, "jinja2">>

\* What a handler can return: a dict with some keys, a mapping that is not a
\* dict, a prebuilt response object, a string, None.
ResponseKeys == {"title", "html_id"}
Responses ==
    [type : {"dict", "MappingProxyType"}, keys : SUBSET ResponseKeys]
    \cup [type : {"Response", "str", "NoneType"}, keys : {{}}]

\* flask.g.context: unset, or a dict with these keys.
GContexts == {{}, {"user"}, {"title"}}

\* A test that takes every response for a dict.
is_dict_always(response) == TRUE

\* isinstance(response, dict)
is_dict(response) == response.type = "dict"

\* render_html(template)(f)(*args, **kwargs), the handler returning
\* `response`: the exception raised, what is returned, whether the template
\* was rendered and whether the page-chrome context was built.
render_html_wrapped(template, f, response, blueprint, g_context) ==
    IF ~is_dict(response)
    THEN [exc |-> "none", ret |-> response, rendered |-> FALSE, chrome |-> FALSE]
    ELSE IF unwrap_raises(blueprint)
    THEN [exc |-> "UnwrapError", ret |-> <<>>, rendered |-> FALSE, chrome |-> TRUE]
    ELSE IF ~Disjoint(response.keys, ChromeKeys)
    THEN [exc |-> "TypeError", ret |-> <<>>, rendered |-> FALSE, chrome |-> TRUE]
    ELSE IF ~Disjoint(response.keys \cup ChromeKeys, g_context)
    THEN [exc |-> "TypeError", ret |-> <<>>, rendered |-> FALSE, chrome |-> TRUE]
    ELSE [exc |-> "none",
          ret |-> [out |-> [template |-> html_template(template, f),
                            context |-> response.keys \cup ChromeKeys \cup g_context],
                   status |-> 200,
                   headers |-> <<"Content-Type", "text/html; charset=utf-8">>],
          rendered |-> TRUE, chrome |-> TRUE]

(* The React decorator's wrapped handler.                                   *)

\* f"js/template/{self.module}/{self.name}.tsx", from the decorator object's
\* fields as they are when the request is served.
react_entrypoint_filename(self) ==
    <<"js", "template", self.module>> \o Tsx(self.name)

\* What a React-decorated handler returns: an instance of its props class,
\* or None.
ReactResponses == {"props", "<None>"}

\* A wrapped handler that runs the decoration's file sync on every request.
render_react_wrapped_syncing(f, self, response, blueprint) ==
    LET r == _write_typescript_type_file(f, self)
    IN [fs |-> r.fs, exc |-> r.exc, ops |-> r.ops, ret |-> <<>>]

\* render_react.__call__'s wrapped(*args, **kwargs), the handler returning
\* `response`, with `self` the decorator object as it is now: the filesystem
\* it leaves, the exception raised, the writer calls and mutations made, and
\* what is returned (the context given to the template, of which the props
\* projection and the URL map are left out).
render_react_wrapped(f, self, response, blueprint) ==
    IF unwrap_raises(blueprint)
    THEN [fs |-> f, exc |-> "UnwrapError", ops |-> <<>>, ret |-> <<>>]
    ELSE [fs |-> f, exc |-> "none", ops |-> <<>>,
          ret |-> [template |-> self.template,
                   react_entrypoint_filename |-> react_entrypoint_filename(self),
                   render_react_response |-> response,
                   context |-> ChromeKeys,
                   status |-> 200,
                   headers |-> <<"Content-Type", "text/html; charset=utf-8">>]]

(* The state machine.                                                       *)

Environments == {"development", "production"}

NoHandler == [py_module |-> <<>>, name |-> "<unset>"]

\* render_react.__init__: only the template is set.
NewDecorator ==
    [template |-> "render_react.jinja2", view_function |-> NoHandler,
     return_type |-> "<unset>", module |-> "<unset>", name |-> "<unset>"]

DecIds == {"d1", "d2"}

NoFiles == [p \in Paths |-> Absent]

\* The trees a checkout can hold when the process starts: js/template missing;
\* the module directory missing; or the module directory with any of a stub
\* (as generated, or hand-edited), a type file (empty, or as generated for
\* some schema) and an unrelated file.
InitialTrees(f) ==
    LET module == ModuleOf(f)
        stubs == {Absent, TextWrite(TextRead(TemplateBytes)), CustomBytes}
        types == {Absent, <<>>,
                  TextWrite(_generate_typescript_type_file_contents("PreferencesProps"))}
        others == {Absent, <<"x">>}
    IN {[root |-> FALSE, dirs |-> {}, files |-> NoFiles],
        [root |-> TRUE, dirs |-> {}, files |-> NoFiles]}
       \cup {[root |-> TRUE, dirs |-> {module},
              files |-> [NoFiles EXCEPT ![<<module, Tsx(f.name)>>] = s,
                                        ![<<module, TypeTs(f.name)>>] = t,
                                        ![<<module, Other>>] = o]] :
             s \in stubs, t \in types, o \in others}

NoCall == [op |-> "none", pre |-> fs, exc |-> "none", ops |-> <<>>]

\* Two processes that can start side by side; "idle": not started.
Procs == {"p1", "p2"}
NoProcs == [p \in Procs |-> [pc |-> "idle", exc |-> "none"]]

Init ==
    /\ ENVIRONMENT \in Environments
    /\ fs \in InitialTrees(H1)
    /\ decorators = [d \in DecIds |-> NewDecorator]
    /\ wrapped = {}
    /\ last = NoCall
    /\ procs = NoProcs

\* The process stops and a new one starts, possibly in another environment:
\* no decorator object and no wrapped handler survives, the files do.
Restart ==
    /\ ENVIRONMENT' \in Environments
    /\ decorators' = [d \in DecIds |-> NewDecorator]
    /\ wrapped' = {}
    /\ last' = [op |-> "restart", pre |-> fs, exc |-> "none", ops |-> <<>>]
    /\ UNCHANGED <<fs, procs>>

\* A direct call _write_react_page_file(module, endpoint).
StubWriterCall(f) ==
    LET r == _write_react_page_file(fs, ModuleOf(f), f.name)
    IN /\ fs' = r.fs
       /\ last' = [op |-> "_write_react_page_file", view_function |-> f,
                   pre |-> fs, exc |-> r.exc, ops |-> r.ops]
       /\ UNCHANGED <<ENVIRONMENT, decorators, wrapped, procs>>

\* A direct call _write_typescript_file(module=, endpoint=, type_data=).
TypeFileCall(f, type_data) ==
    LET r == _write_typescript_file(fs, ModuleOf(f), f.name, type_data)
    IN /\ fs' = r.fs
       /\ last' = [op |-> "_write_typescript_file", view_function |-> f,
                   type_data |-> type_data,
                   pre |-> fs, exc |-> r.exc, ops |-> r.ops]
       /\ UNCHANGED <<ENVIRONMENT, decorators, wrapped, procs>>

\* render_react.__call__: decorator object d decorates view_function, whose
\* return annotation is `annotation`.
Decorate(d, view_function, annotation) ==
    LET self == [decorators[d] EXCEPT
                    !.view_function = view_function,
                    !.return_type = return_type_of(annotation),
                    !.module = ModuleOf(view_function),
                    !.name = view_function.name]
        r == _write_typescript_type_file(fs, self)
        w == [dec |-> d, view_function |-> view_function]
    IN /\ \A v \in wrapped : v.view_function # view_function
       /\ decorators' = [decorators EXCEPT ![d] = self]
       /\ fs' = r.fs
       /\ wrapped' = IF r.exc = "none" THEN wrapped \cup {w} ELSE wrapped
       /\ last' = [op |-> "render_react", view_function |-> view_function,
                   annotation |-> annotation, dec |-> d,
                   pre |-> fs, exc |-> r.exc, ops |-> r.ops]
       /\ UNCHANGED <<ENVIRONMENT, procs>>

\* A request served by a handler that render_html(template) decorates.
HtmlRequest(template, f, response, blueprint, g_context) ==
    LET r == render_html_wrapped(template, f, response, blueprint, g_context)
    IN /\ last' = [op |-> "render_html", view_function |-> f,
                   template |-> template, response |-> response,
                   blueprint |-> blueprint, g_context |-> g_context,
                   pre |-> fs, exc |-> r.exc, ops |-> <<>>, ret |-> r.ret,
                   rendered |-> r.rendered, chrome |-> r.chrome]
       /\ UNCHANGED <<ENVIRONMENT, fs, decorators, wrapped, procs>>

TypeDatas == {None} \cup Strings

Next ==
    \/ Restart
    \/ StubWriterCall(H1)
    \/ \E type_data \in TypeDatas : TypeFileCall(H1, type_data)
    \/ \E annotation \in Annotations : Decorate("d1", H1, annotation)

\* Generation: process starts, direct calls of the two writers, decorations.
Spec == Init /\ [][Next]_vars

InitHtml ==
    /\ ENVIRONMENT \in Environments
    /\ fs \in {t \in InitialTrees(H1) : t.root /\ iterdir(t, ModuleOf(H1)) = {}}
    /\ decorators = [d \in DecIds |-> NewDecorator]
    /\ wrapped = {}
    /\ last = NoCall
    /\ procs = NoProcs

NextHtml ==
    \E template \in {<<"<None>">>, <<"page.jinja2">>}, f \in Handlers,
       response \in Responses, blueprint \in {"admin", "<None>"},
       g_context \in GContexts :
        HtmlRequest(template, f, response, blueprint, g_context)

\* Serving: requests to handlers the plain-template decorator wraps.
SpecHtml == InitHtml /\ [][NextHtml]_vars

\* A request served by the wrapped handler w that a React decoration
\* returned: the closure holds the decorator object, not a copy of its fields.
ReactRequest(w, response, blueprint) ==
    LET r == render_react_wrapped(fs, decorators[w.dec], response, blueprint)
    IN /\ w \in wrapped
       /\ fs' = r.fs
       /\ last' = [op |-> "render_react wrapped", view_function |-> w.view_function,
                   dec |-> w.dec, response |-> response, blueprint |-> blueprint,
                   pre |-> fs, exc |-> r.exc, ops |-> r.ops, ret |-> r.ret]
       /\ UNCHANGED <<ENVIRONMENT, decorators, wrapped, procs>>

\* The process starts with js/template in place and nothing generated yet.
InitServe ==
    /\ ENVIRONMENT \in Environments
    /\ fs = [root |-> TRUE, dirs |-> {}, files |-> NoFiles]
    /\ decorators = [d \in DecIds |-> NewDecorator]
    /\ wrapped = {}
    /\ last = NoCall
    /\ procs = NoProcs

\* The return annotations of the handlers the serving process decorates.
ServeAnnotations == {"None", "int", "PreferencesProps", "OrderProps"}

NextServe ==
    \/ \E d \in DecIds, f \in Handlers, annotation \in ServeAnnotations :
          Decorate(d, f, annotation)
    \/ \E w \in wrapped, response \in ReactResponses,
          blueprint \in {"admin", "<None>"} :
          ReactRequest(w, response, blueprint)
    \/ \E f \in Handlers,
          response \in {r \in Responses : r.keys = {}} :
          HtmlRequest(<<"<None>">>, f, response, "admin", {})

\* One process: modules are imported and their handlers decorated, by either
\* of two decorator objects, while requests are served.
SpecServe == InitServe /\ [][NextServe]_vars

(* Two processes starting side by side, each decorating the same handler    *)
(* with the same schema; a step is one filesystem call.                     *)

\* The decorator object each of them has once __call__ has set its fields.
RaceSelf ==
    [NewDecorator EXCEPT !.view_function = H1,
                         !.return_type = return_type_of("PreferencesProps"),
                         !.module = ModuleOf(H1),
                         !.name = H1.name]

\* open(path, "w") or open(path, "w+"): the file is created, or cut to
\* nothing, and the process holds it open at offset 0.
truncate_open(f, module, fname) ==
    IF module \notin f.dirs THEN Raised(f, "FileNotFoundError", <<>>)
    ELSE Returned([f EXCEPT !.files[<<module, fname>>] = <<>>], <<"open">>)

\* write(data) and the close that flushes it, from offset 0: the bytes take
\* the place of the first bytes the file holds by then, and what lies beyond
\* them stays.  A file unlinked since the open gets nothing one can see.
write_at_start(f, module, fname, data) ==
    LET held == f.files[<<module, fname>>]
        bytes == TextWrite(data)
    IN IF held = Absent THEN Returned(f, <<>>)
       ELSE Returned([f EXCEPT !.files[<<module, fname>>] =
                          bytes \o SubSeq(held, Len(bytes) + 1, Len(held))],
                     <<"write">>)

\* Process p moves to pc, or stops on the exception a call raised.
Moved(p, outcome, pc) ==
    /\ fs' = outcome.fs
    /\ procs' = [procs EXCEPT ![p] =
                   IF outcome.exc = "none" THEN [pc |-> pc, exc |-> "none"]
                   ELSE [pc |-> "raised", exc |-> outcome.exc]]
    /\ UNCHANGED <<ENVIRONMENT, decorators, wrapped, last>>

\* render_react.__call__ up to the first writer: the fields, the NoneType
\* test, the assertion.
race_call(p) ==
    /\ procs[p].pc = "idle"
    /\ Moved(p, IF returns_none(RaceSelf) \/ AttrsTruthy(RaceSelf.return_type)
                THEN Returned(fs, <<>>)
                ELSE Raised(fs, "AssertionError", <<>>),
             IF returns_none(RaceSelf) THEN "done" ELSE "exists")

\* _write_react_page_file: the environment test and exists().
race_exists(p) ==
    /\ procs[p].pc = "exists"
    /\ Moved(p, Returned(fs, <<>>),
             IF ~in_dev_environment \/ exists(fs, RaceSelf.module, Tsx(RaceSelf.name))
             THEN "read_type" ELSE "read_template")

\* ... the template is read,
race_read_template(p) ==
    /\ procs[p].pc = "read_template"
    /\ Moved(p, Returned(fs, <<>>), "mkdir_stub")

\* ... the parent directory made,
race_mkdir_stub(p) ==
    /\ procs[p].pc = "mkdir_stub"
    /\ Moved(p, mkdir(fs, RaceSelf.module), "open_stub")

\* ... the stub opened "w+",
race_open_stub(p) ==
    /\ procs[p].pc = "open_stub"
    /\ Moved(p, truncate_open(fs, RaceSelf.module, Tsx(RaceSelf.name)), "write_stub")

\* ... and written.
race_write_stub(p) ==
    /\ procs[p].pc = "write_stub"
    /\ Moved(p, write_at_start(fs, RaceSelf.module, Tsx(RaceSelf.name),
                               TextRead(TemplateBytes)),
             "read_type")

\* _write_typescript_file: the environment test, the read of the existing
\* file and the comparison.  The generated source ends in a newline, so it
\* is never falsy and the delete branch is not taken.
race_read_type(p) ==
    /\ procs[p].pc = "read_type"
    /\ Moved(p, Returned(fs, <<>>),
             IF \/ not_development
                \/ generated_for(RaceSelf)
                     = existing_type_data(fs, RaceSelf.module, RaceSelf.name)
             THEN "done" ELSE "mkdir_type")

\* ... the parent directory made,
race_mkdir_type(p) ==
    /\ procs[p].pc = "mkdir_type"
    /\ Moved(p, mkdir(fs, RaceSelf.module), "open_type")

\* ... the type file opened "w",
race_open_type(p) ==
    /\ procs[p].pc = "open_type"
    /\ Moved(p, truncate_open(fs, RaceSelf.module, TypeTs(RaceSelf.name)), "write_type")

\* ... and written.
race_write_type(p) ==
    /\ procs[p].pc = "write_type"
    /\ Moved(p, write_at_start(fs, RaceSelf.module, TypeTs(RaceSelf.name),
                               generated_for(RaceSelf)),
             "done")

\* Development mode, any tree a checkout can hold, both processes about to
\* start.
InitRace ==
    /\ ENVIRONMENT = "development"
    /\ fs \in InitialTrees(H1)
    /\ decorators = [d \in DecIds |-> NewDecorator]
    /\ wrapped = {}
    /\ last = NoCall
    /\ procs = NoProcs

NextRace ==
    \E p \in Procs :
        \/ race_call(p)
        \/ race_exists(p)
        \/ race_read_template(p)
        \/ race_mkdir_stub(p)
        \/ race_open_stub(p)
        \/ race_write_stub(p)
        \/ race_read_type(p)
        \/ race_mkdir_type(p)
        \/ race_open_type(p)
        \/ race_write_type(p)

\* Concurrent starts: every interleaving of the two processes' steps.
SpecRace == InitRace /\ [][NextRace]_vars

(* Properties.                                                              *)

Dev == ENVIRONMENT = "development"
LastModule == ModuleOf(last.view_function)
LastName == last.view_function.name
StubPath == <<LastModule, Tsx(LastName)>>
TypePath == <<LastModule, TypeTs(LastName)>>
Writes(ops) == Cardinality({i \in 1..Len(ops) : ops[i] = "write"})

\* The last call was _write_typescript_file in development mode with null or
\* empty type data, and the type file existed before it.
SyncedFalsyOverExisting ==
    /\ last.op = "_write_typescript_file"
    /\ Dev
    /\ ~Truthy(last.type_data)
    /\ Exists(last.pre, LastModule, TypeTs(LastName))

\* C1: in development mode, two calls of the type-file sync in a row with the
\* same non-empty type data for the same module and endpoint, the first from
\* a state where the file is absent or reads differently, and both returning,
\* make exactly one file write in total, and the second changes nothing.
C1_TwoCalls ==
    (/\ last.op = "_write_typescript_file"
     /\ last'.op = "_write_typescript_file"
     /\ last'.view_function = last.view_function
     /\ last'.type_data = last.type_data
     /\ Truthy(last.type_data)
     /\ Dev /\ ENVIRONMENT' = ENVIRONMENT
     /\ existing_type_data(last.pre, LastModule, LastName) # last.type_data
     /\ last.exc = "none" /\ last'.exc = "none")
    => (/\ Writes(last.ops) + Writes(last'.ops) = 1
        /\ last'.ops = <<>>
        /\ fs' = fs)
C1_IdempotentSync == [][C1_TwoCalls]_vars

\* C2: a page-component file that exists before a decoration, or before a
\* call of the stub writer, has the same content after it, whatever the
\* handler's return annotation and whatever the mode.
C2_StubNeverOverwritten ==
    (/\ last.op \in {"render_react", "_write_react_page_file"}
     /\ Exists(last.pre, LastModule, Tsx(LastName)))
    => fs.files[StubPath] = last.pre.files[StubPath]

\* C2 witness: in development mode a decoration with a schema that rewrites
\* the type file has run over a hand-edited stub.
C2_Witness ==
    /\ last.op = "render_react"
    /\ Dev
    /\ last.annotation = "OrderProps"
    /\ last.pre.files[StubPath] = CustomBytes
    /\ Writes(last.ops) = 1
    /\ fs.files[StubPath] = CustomBytes

\* C3: a development-mode decoration of a handler annotated "-> None", with
\* a type file left by a prior schema, deletes that file, and removes its
\* directory if that leaves the directory empty.
C3_StaleTypeFileRemoved ==
    (/\ last.op = "render_react"
     /\ Dev
     /\ last.annotation = "None"
     /\ Exists(last.pre, LastModule, TypeTs(LastName)))
    => (/\ ~Exists(fs, LastModule, TypeTs(LastName))
        /\ (iterdir(last.pre, LastModule) = {TypeTs(LastName)}
               => LastModule \notin fs.dirs))

\* C4: a development-mode sync with null or empty type data, when the type
\* file exists and is the only entry of its directory, leaves neither the
\* file nor the directory.
C4_DeleteAndCleanUp ==
    (/\ SyncedFalsyOverExisting
     /\ iterdir(last.pre, LastModule) = {TypeTs(LastName)})
    => (/\ ~Exists(fs, LastModule, TypeTs(LastName))
        /\ LastModule \notin fs.dirs)

\* The directory and every entry of it but the type file are as before.
OthersKept ==
    /\ LastModule \in fs.dirs
    /\ \A p \in Paths \ {TypePath} : fs.files[p] = last.pre.files[p]

\* C5 as stated: a development-mode sync with null or empty type data, when
\* the type file exists and its directory holds another entry, deletes the
\* type file and leaves the directory and every other entry in place.
C5_Original ==
    (/\ SyncedFalsyOverExisting
     /\ iterdir(last.pre, LastModule) # {TypeTs(LastName)})
    => (/\ ~Exists(fs, LastModule, TypeTs(LastName))
        /\ OthersKept)

\* C5 as amended: in that case the directory and every other entry are left
\* in place, and the type file is deleted unless the type data is the empty
\* string and the file reads as the empty string, when it too is left.
C5_DirectoryCleanupSafety ==
    (/\ SyncedFalsyOverExisting
     /\ iterdir(last.pre, LastModule) # {TypeTs(LastName)})
    => (/\ OthersKept
        /\ Exists(fs, LastModule, TypeTs(LastName))
             <=> (/\ last.type_data = <<>>
                  /\ existing_type_data(last.pre, LastModule, LastName) = <<>>)
        /\ Exists(fs, LastModule, TypeTs(LastName))
             => fs.files[TypePath] = last.pre.files[TypePath])

\* C5 witness: the type file was deleted from a directory that held a stub
\* and an unrelated file, and both are still there.
C5_Witness ==
    /\ SyncedFalsyOverExisting
    /\ last.ops = <<"unlink">>
    /\ {Tsx(LastName), Other} \subseteq iterdir(last.pre, LastModule)
    /\ iterdir(fs, LastModule) = {Tsx(LastName), Other}

\* C6: decorating a handler annotated "-> None" returns the wrapped handler
\* and creates neither the stub nor the type file: it makes no directory,
\* writes no file, and a stub or type file absent before is absent after.
C6_NoneSchemaCreatesNothing ==
    (/\ last.op = "render_react"
     /\ last.annotation = "None")
    => (/\ last.exc = "none"
        /\ [dec |-> last.dec, view_function |-> last.view_function] \in wrapped
        /\ \A i \in 1..Len(last.ops) : last.ops[i] \notin {"write", "mkdir"}
        /\ \A p \in {StubPath, TypePath} :
              last.pre.files[p] = Absent => fs.files[p] = Absent)

\* C6 witness: such a decoration has run in development mode over a tree
\* that had neither file, so a schema would have created both.
C6_Witness ==
    /\ last.op = "render_react"
    /\ last.annotation = "None"
    /\ Dev
    /\ last.pre.root
    /\ last.pre.files[StubPath] = Absent
    /\ last.pre.files[TypePath] = Absent
    /\ last.exc = "none"

\* The annotation gives a return type that is neither NoneType nor an attrs
\* class: a primitive, or no annotation at all.
NotReflectable(annotation) ==
    /\ return_type_of(annotation) # NoneType
    /\ attrs_attrs(return_type_of(annotation)) = <<"<False>">>

\* C7: decorating a handler whose return type is neither None nor an attrs
\* class raises, and this process has no wrapped handler for that function.
C7_ReflectabilityFailure ==
    (/\ last.op = "render_react"
     /\ NotReflectable(last.annotation))
    => (/\ last.exc = "AssertionError"
        /\ \A w \in wrapped : w.view_function # last.view_function)

\* C7 witness: a handler annotated "-> int" has been decorated in development
\* mode over a tree in which the writers would have succeeded.
C7_Witness ==
    /\ last.op = "render_react"
    /\ last.annotation = "int"
    /\ Dev
    /\ last.pre.root
    /\ last.exc = "AssertionError"

\* C8: outside development mode a call of the stub writer or of the type-file
\* sync returns and leaves the whole tree as it was.
C8_NoWritesOutsideDevelopment ==
    (/\ ~Dev
     /\ last.op \in {"_write_react_page_file", "_write_typescript_file"})
    => (/\ last.exc = "none"
        /\ last.ops = <<>>
        /\ fs = last.pre)

\* C8 witness: outside development mode the sync was called with type data
\* that differs from what the file holds, over a tree it could have written.
C8_Witness ==
    /\ ~Dev
    /\ last.op = "_write_typescript_file"
    /\ Truthy(last.type_data)
    /\ last.pre.root
    /\ Exists(last.pre, LastModule, TypeTs(LastName))
    /\ existing_type_data(last.pre, LastModule, LastName) # last.type_data

\* C9: when the handler returns a value that is not a mapping, the wrapped
\* handler returns that value, renders no template and does not build the
\* page-chrome context.
C9_PassThrough ==
    (/\ last.op = "render_html"
     /\ last.response.type \notin {"dict", "MappingProxyType"})
    => (/\ last.exc = "none"
        /\ ~last.rendered
        /\ ~last.chrome
        /\ last.ret = last.response)

\* C9 witness: a handler has returned a prebuilt response object.
C9_Witness ==
    /\ last.op = "render_html"
    /\ last.response.type = "Response"
    /\ last.blueprint = "admin"
    /\ last.ret = last.response

\* C10: when the handler returns a dict, whatever its keys, in a request that
\* has a blueprint, the wrapped handler renders the template with the result,
\* the page-chrome context and the ambient context merged, and returns the
\* body with status 200 and the text/html content type.
C10_MappingResponseShape ==
    (/\ last.op = "render_html"
     /\ last.response.type = "dict"
     /\ last.blueprint # "<None>")
    => (/\ last.exc = "none"
        /\ last.rendered
        /\ last.ret.status = 200
        /\ last.ret.headers = <<"Content-Type", "text/html; charset=utf-8">>
        /\ last.ret.out.context = last.response.keys \cup ChromeKeys \cup last.g_context)

\* The last call was the stub writer, in development mode, with no stub there.
StubWriterOverAbsent ==
    /\ last.op = "_write_react_page_file"
    /\ Dev
    /\ ~Exists(last.pre, LastModule, Tsx(LastName))

\* C15: in development mode, with the stub absent, the stub writer returns
\* having created whatever directories were missing, js/template included,
\* and the stub then holds the contents of the template file.
C15_StubCreation ==
    StubWriterOverAbsent
    => (/\ last.exc = "none"
        /\ fs.root
        /\ LastModule \in fs.dirs
        /\ fs.files[StubPath] = TemplateBytes)

\* The last call was the sync, in development mode, with non-empty type data
\* that differs from what the file read as (None: no file).
SyncedNewData ==
    /\ last.op = "_write_typescript_file"
    /\ Dev
    /\ Truthy(last.type_data)
    /\ existing_type_data(last.pre, LastModule, LastName) # last.type_data

\* C16: in development mode, with non-empty type data that differs from the
\* existing content or with the file absent, the sync creates the parent
\* directory if it is missing, and the file then holds the type data exactly.
C16_WriteOnDifference ==
    SyncedNewData
    => (/\ last.exc = "none"
        /\ LastModule \in fs.dirs
        /\ fs.files[TypePath] = last.type_data)

\* C17: in development mode, when the sync has deleted the type file and
\* other entries remain in its directory, it does not try to remove the
\* directory and returns without raising.
C17_NonEmptyDirectoryIsNoError ==
    (/\ SyncedFalsyOverExisting
     /\ ~Exists(fs, LastModule, TypeTs(LastName))
     /\ iterdir(fs, LastModule) # {})
    => (/\ last.exc = "none"
        /\ last.ops = <<"unlink">>)

\* C18: in development mode, the sync called with None or with the empty
\* string when the type file does not exist returns without raising and
\* leaves the tree as it was.
C18_NothingToDelete ==
    (/\ last.op = "_write_typescript_file"
     /\ Dev
     /\ ~Truthy(last.type_data)
     /\ ~Exists(last.pre, LastModule, TypeTs(LastName)))
    => (/\ last.exc = "none"
        /\ last.ops = <<>>
        /\ fs = last.pre)

\* The calls of the two writers among a decoration's `ops`, in order.
Calls(ops) == SelectSeq(ops, LAMBDA o : o \in {CallStub, CallSync})

\* C19: decorating a handler whose return type is an attrs class with
\* attributes calls the stub writer and then the type-file emitter, each
\* exactly once, both return, and only then is the wrapped handler there.
C19_DecorationOrdering ==
    (/\ last.op = "render_react"
     /\ AttrsTruthy(return_type_of(last.annotation)))
    => (/\ Calls(last.ops) = <<CallStub, CallSync>>
        /\ last.exc = "none"
        /\ [dec |-> last.dec, view_function |-> last.view_function] \in wrapped)

\* C20: a decoration that fails on the return type (a primitive, no
\* annotation, an attrs class the assertion rejects) has called neither
\* writer and leaves the tree as it was.
C20_FailedDecorationLeavesTree ==
    (/\ last.op = "render_react"
     /\ (NotReflectable(last.annotation) \/ last.exc = "AssertionError"))
    => (/\ last.exc = "AssertionError"
        /\ last.ops = <<>>
        /\ fs = last.pre)

\* C20 witness: a handler with no return annotation has been decorated in
\* development mode over a tree in which the stub writer would have made the
\* module directory and the stub.
C20_Witness ==
    /\ last.op = "render_react"
    /\ last.annotation = "unannotated"
    /\ Dev
    /\ last.pre.root
    /\ LastModule \notin last.pre.dirs
    /\ last.exc = "AssertionError"

\* The last call was a request served by a wrapped handler.
Served == last.op \in {"render_react wrapped", "render_html"}

\* C11: a request served by a React-decorated or plain-decorated handler, in
\* either mode and whatever was decorated or served before it, calls neither
\* writer, makes no filesystem mutation and leaves the tree as it was.
C11_ServingLeavesTree ==
    Served => (/\ last.ops = <<>>
               /\ fs = last.pre)

\* C11 witness: in development mode a React-decorated handler whose
\* decoration wrote its stub and type file has served a request, after its
\* decorator object went on to decorate another handler.
C11_Witness ==
    /\ last.op = "render_react wrapped"
    /\ Dev
    /\ last.exc = "none"
    /\ Exists(fs, LastModule, Tsx(LastName))
    /\ Exists(fs, LastModule, TypeTs(LastName))
    /\ decorators[last.dec].view_function # last.view_function

\* s ends in exactly one newline.
OneTrailingNewline(s) ==
    /\ Len(s) >= 2
    /\ s[Len(s)] = LF
    /\ s[Len(s) - 1] \notin {LF, CR}

C14_EndpointIdentityFixed ==
    (/\ last.op = "render_react wrapped"
     /\ last.exc = "none")
    => last.ret.react_entrypoint_filename
         = <<"js", "template", LastModule>> \o Tsx(LastName)

\* Both processes have come to the end of their decoration, one way or the
\* other.
RaceFinished == \A p \in Procs : procs[p].pc \in {"done", "raised"}

\* C13: when two processes run development-mode decoration of the same
\* endpoint with the same schema side by side, from a tree without the stub
\* or with the stub as generated, then under every interleaving of their
\* steps both complete without error, and once both have finished the stub
\* holds the template's content and the type file the generated source.
C13_ConcurrentStartsConverge ==
    (/\ RaceFinished
     /\ last.pre.files[<<RaceSelf.module, Tsx(RaceSelf.name)>>]
          \in {Absent, TemplateBytes})
    => (/\ \A p \in Procs : procs[p].pc = "done"
        /\ fs.files[<<RaceSelf.module, Tsx(RaceSelf.name)>>] = TemplateBytes
        /\ fs.files[<<RaceSelf.module, TypeTs(RaceSelf.name)>>]
             = TextWrite(generated_for(RaceSelf)))

====
